---- MODULE Spec2Model ----
(***************************************************************************)
(* A model of the CV PDF generator: the API's PDFService (api_server.py),  *)
(* the CLI's CVPDFGenerator and the static markup renderer                 *)
(* (generate_pdf.py).                                                      *)
(***************************************************************************)
EXTENDS Integers, Sequences, FiniteSets, TLC

VARIABLES
    program,      \* the program that runs: "api_server", "generate_pdf", or a harness
    listener,     \* for each port, who holds its listening socket: "none", "api", "cli", "other"
    browser,      \* PDFService.browser: "None", "open" (launched) or "closed"
    httpd,        \* PDFService.httpd: "None", "serving" or "closed"
    semaphore,    \* PDFService.semaphore: the counter of the asyncio.Semaphore
    pc,           \* for each generate_pdf coroutine, the await it is suspended at
    pages,        \* the coroutines whose page is open in the shared browser
    appPhase,     \* the FastAPI app: "created", "serving" or "stopped"
    cliPc,        \* generate_pdf.py: the statement main() or run() is at
    cliHttpd,     \* CVPDFGenerator.httpd: "None", "serving" or "closed"
    args,         \* the parsed command line and the files found in cv_folder
    cliBrowser,   \* the browser of the running async_playwright() context
    cliPage,      \* whether the page of generate_pdf_playwright is open
    stage,        \* the await generate_pdf_playwright is at
    startInvoked, \* start_server has been called
    stopRan,      \* stop_server has been called
    printed,      \* what the CLI printed last: "", "error" or "ok"
    lastOp,       \* the last start or stop call on a server object, with its result
    request,      \* a generation request: entry point, document keys, language
    response,     \* what the entry point answered
    data,         \* the LanguageSection and labels given to the renderer
    html          \* the renderer's output

svcVars == <<browser, httpd, semaphore, pc, pages>>

cliVars == <<cliPc, cliHttpd, args, cliBrowser, cliPage, stage, startInvoked, stopRan, printed>>

pureVars == <<request, response, data, html>>

vars == <<program, listener, svcVars, appPhase, cliVars, lastOp, pureVars>>

(***************************************************************************)
(* api_server.py                                                           *)
(***************************************************************************)

MAX_CONCURRENT_PDFS == 5

STATIC_PORT == 8001

\* The default of --port in generate_pdf.py.
DEFAULT_PORT == 8000

Ports == {DEFAULT_PORT, STATIC_PORT}

NoListener == [p \in Ports |-> "none"]

\* Concurrent callers of PDFService.generate_pdf beyond the gate's capacity.
ExtraJobs == 1

Jobs == 1..(MAX_CONCURRENT_PDFS + ExtraJobs)

\* Language codes a request may name.
Langs == {"en", "pl", "de"}

\* Documents, as their keys in insertion order (list(data.keys())).
Documents ==
    {<<"en", "pl">>, <<"pl", "en">>, <<"en">>, <<"pl">>, <<"de", "en">>, <<"en", "pl", "de">>, <<>>}

Keys(doc) == {doc[i] : i \in 1..Len(doc)}

\* PDFService.generate_pdf, the language check: the HTTPException raised for
\* a language that is no key of the data, or status 0 to go on.
CheckLanguage(doc, language) ==
    IF language \notin Keys(doc)
    THEN [status |-> 400, kind |-> "InvalidLanguage", available |-> doc]
    ELSE [status |-> 0, kind |-> "pass", available |-> <<>>]

NoOp == [obj |-> "none", op |-> "none", before |-> NoListener, had |-> "none", result |-> "none"]

NoArgs == [method |-> "none", language |-> "none", files |-> "none", port |-> DEFAULT_PORT]

IdleCli ==
    /\ cliPc = "none"
    /\ cliHttpd = "None"
    /\ cliBrowser = "none"
    /\ cliPage = FALSE
    /\ stage = "none"
    /\ startInvoked = FALSE
    /\ stopRan = FALSE
    /\ printed = ""

IdlePure ==
    /\ request = [entry |-> "none", doc |-> <<>>, language |-> "none"]
    /\ response = [kind |-> "none"]
    /\ data = <<>>
    /\ html = <<>>

\* PDFService.__init__
NewService ==
    /\ browser = "None"
    /\ httpd = "None"
    /\ semaphore = MAX_CONCURRENT_PDFS
    /\ pc = [j \in Jobs |-> "idle"]
    /\ pages = {}

InitService ==
    /\ program = "api_server"
    /\ listener = NoListener
    /\ NewService
    /\ appPhase = "created"
    /\ IdleCli
    /\ args = NoArgs
    /\ lastOp = NoOp
    /\ IdlePure

\* PDFService.start: TCPServer binds the port (OSError when it is taken,
\* raised before self.httpd is assigned), the serving thread starts, the
\* browser is launched.
StartResult ==
    IF listener[STATIC_PORT] # "none" THEN "OSError: address already in use" ELSE "ok"

Start ==
    /\ IF listener[STATIC_PORT] # "none"
       THEN UNCHANGED <<httpd, listener, browser>>
       ELSE /\ httpd' = "serving"
            /\ listener' = [listener EXCEPT ![STATIC_PORT] = "api"]
            /\ browser' = "open"
    /\ UNCHANGED <<semaphore, pc, pages>>

\* PDFService.stop: browser.close() closes every page of the browser;
\* httpd.shutdown() and server_close() release the port. Neither handle is
\* reset to None.
Stop ==
    /\ browser' = IF browser = "None" THEN "None" ELSE "closed"
    /\ pages' = IF browser = "None" THEN pages ELSE {}
    /\ httpd' = IF httpd = "None" THEN "None" ELSE "closed"
    /\ listener' = IF httpd = "serving"
                   THEN [listener EXCEPT ![STATIC_PORT] = "none"]
                   ELSE listener
    /\ UNCHANGED <<semaphore, pc>>

\* The service is started once and stopped once.
Boot ==
    /\ program = "api_server"
    /\ browser = "None"
    /\ Start
    /\ UNCHANGED <<program, appPhase, cliVars, lastOp, pureVars>>

Shutdown ==
    /\ program = "api_server"
    /\ browser = "open"
    /\ Stop
    /\ UNCHANGED <<program, appPhase, cliVars, lastOp, pureVars>>

\* An admission that does not count: the slot is not taken.
AdmitNoCount(j) ==
    /\ pc' = [pc EXCEPT ![j] = IF browser = "None" THEN "done" ELSE "opening"]
    /\ UNCHANGED semaphore

\* The slot is taken (async with self.semaphore) and self.browser.new_page()
\* is evaluated: with no browser the attribute lookup raises at once and
\* __aexit__ gives the slot back before the coroutine ever suspends.
Admit(j) ==
    IF browser = "None"
    THEN /\ pc' = [pc EXCEPT ![j] = "done"]
         /\ UNCHANGED semaphore
    ELSE /\ pc' = [pc EXCEPT ![j] = "opening"]
         /\ semaphore' = semaphore - 1

\* generate_pdf is called: the language check, then the gate.
Enter(j, doc, language) ==
    IF CheckLanguage(doc, language).status = 400
    THEN /\ pc' = [pc EXCEPT ![j] = "done"]
         /\ UNCHANGED semaphore
    ELSE IF semaphore > 0
         THEN Admit(j)
         ELSE /\ pc' = [pc EXCEPT ![j] = "waiting"]
              /\ UNCHANGED semaphore

Call(j) ==
    /\ program = "api_server"
    /\ pc[j] = "idle"
    /\ \E doc \in {<<"en", "pl">>}, language \in {"en", "de"} : Enter(j, doc, language)
    /\ UNCHANGED <<program, listener, browser, httpd, pages, appPhase, cliVars, lastOp, pureVars>>

\* A waiter of the semaphore resumes once a slot is free.
Acquire(j) ==
    /\ pc[j] = "waiting"
    /\ semaphore > 0
    /\ Admit(j)
    /\ UNCHANGED <<program, listener, browser, httpd, pages, appPhase, cliVars, lastOp, pureVars>>

\* A new_page whose exception does not give the slot back.
OpenPageLeak(j) ==
    \/ /\ browser = "open"
       /\ pages' = pages \cup {j}
       /\ pc' = [pc EXCEPT ![j] = "rendering"]
       /\ UNCHANGED semaphore
    \/ /\ pc' = [pc EXCEPT ![j] = "done"]
       /\ UNCHANGED <<semaphore, pages>>

\* await self.browser.new_page() returns a page, or raises (the browser was
\* closed, or could not open one): the exception leaves the async with,
\* which releases the slot.
OpenPage(j) ==
    \/ /\ browser = "open"
       /\ pages' = pages \cup {j}
       /\ pc' = [pc EXCEPT ![j] = "rendering"]
       /\ UNCHANGED semaphore
    \/ /\ pc' = [pc EXCEPT ![j] = "done"]
       /\ semaphore' = semaphore + 1
       /\ UNCHANGED pages

NewPage(j) ==
    /\ pc[j] = "opening"
    /\ OpenPage(j)
    /\ UNCHANGED <<program, listener, browser, httpd, appPhase, cliVars, lastOp, pureVars>>

\* A generate_pdf whose try has no finally: the page is left as it is.
FinallyNoClose(j) ==
    /\ UNCHANGED pages
    /\ semaphore' = semaphore + 1
    /\ pc' = [pc EXCEPT ![j] = "closed"]

\* The try block (page.goto, wait_for_selector("#cv-container"),
\* page.evaluate, wait_for_selector("#cv"), page.pdf) is left, by return
\* pdf_bytes (the page was open to the end) or by the exception of the await
\* that failed; finally closes the page and __aexit__ releases the slot.
\* A job that got here is "closed"; one that ended before it had a page is
\* "done".
Finally(j) ==
    /\ pages' = pages \ {j}
    /\ semaphore' = semaphore + 1
    /\ pc' = [pc EXCEPT ![j] = "closed"]

Render(j) ==
    /\ pc[j] = "rendering"
    /\ \E left \in {"return", "raise"} : left = "return" => j \in pages
    /\ Finally(j)
    /\ UNCHANGED <<program, listener, browser, httpd, appPhase, cliVars, lastOp, pureVars>>

NextService ==
    \/ Boot
    \/ Shutdown
    \/ \E j \in Jobs : Call(j)
    \/ \E j \in Jobs : Acquire(j)
    \/ \E j \in Jobs : NewPage(j)
    \/ \E j \in Jobs : Render(j)

SpecService == InitService /\ [][NextService]_vars

\* The event loop resumes every coroutine whose await has completed, and
\* every await of an admitted job completes (with a value or an exception);
\* the semaphore resumes a waiter while a slot is free.
JobStep(j) == Acquire(j) \/ NewPage(j) \/ Render(j)

FairService == SpecService /\ \A j \in Jobs : WF_vars(JobStep(j))

\* The coroutines inside async with self.semaphore.
Holders == {j \in Jobs : pc[j] \in {"opening", "rendering"}}

\* C1: at most MAX_CONCURRENT_PDFS jobs hold an open page; a page is open
\* only for a job that holds a slot of the gate, and the slots held and the
\* slots free always add up to the capacity, so a further job opens its
\* page only after a holder has released.
GateBoundsPages ==
    /\ Cardinality(pages) <= MAX_CONCURRENT_PDFS
    /\ pages \subseteq Holders
    /\ semaphore >= 0
    /\ semaphore + Cardinality(Holders) = MAX_CONCURRENT_PDFS

GateFullWithWaiter ==
    /\ Cardinality(pages) = MAX_CONCURRENT_PDFS
    /\ \E j \in Jobs : pc[j] = "waiting"

\* C10: when every admitted job eventually finishes and the semaphore wakes
\* its waiters, no job stays on the gate: again and again no job at all is
\* waiting for a slot, so every job that waits is eventually admitted.
WaitersAdmitted == []<>(\A j \in Jobs : pc[j] # "waiting")

WaiterWithFreeSlot == \E j \in Jobs : pc[j] = "waiting" /\ semaphore > 0

(***************************************************************************)
(* generate_pdf.py: the command line program                               *)
(***************************************************************************)

Methods == {"playwright", "weasyprint"}

Choices == {"en", "pl", "both"}

\* What cv_folder holds: both files, or one of them missing.
Folders == {"complete", "no cv_yaml.html", "no content.yaml"}

NoStage == [lang |-> "none", at |-> "none"]

\* main() after parse_args; another process may hold the port.
InitCli ==
    /\ program = "generate_pdf"
    /\ listener \in [Ports -> {"none", "other"}]
    /\ NewService
    /\ appPhase = "created"
    /\ cliPc = "main"
    /\ cliHttpd = "None"
    /\ args \in [method : Methods, language : Choices, files : Folders, port : Ports]
    /\ cliBrowser = "none"
    /\ cliPage = FALSE
    /\ stage = NoStage
    /\ startInvoked = FALSE
    /\ stopRan = FALSE
    /\ printed = ""
    /\ lastOp = NoOp
    /\ IdlePure

\* main() took the branch that awaits CVPDFGenerator.run().
InRun == args.method = "playwright" /\ args.language = "both"

\* is_port_available: a probe socket binds the port, or OSError.
is_port_available == listener[args.port] = "none"

\* wait_for_server: a connection to the port is accepted once a socket
\* listens on it; `l` is the holder of the port when the probe runs.
wait_for_server(l) == l # "none"

\* What start_server raises, or "ok".
StartServerResult ==
    IF ~is_port_available
    THEN "RuntimeError: port already in use"
    ELSE IF ~wait_for_server("cli")
         THEN "RuntimeError: server failed to start"
         ELSE "ok"

\* CVPDFGenerator.start_server
start_server ==
    IF ~is_port_available
    THEN UNCHANGED <<cliHttpd, listener>>
    ELSE /\ cliHttpd' = "serving"
         /\ listener' = [listener EXCEPT ![args.port] = "cli"]

\* A stop_server without server_close(): the socket stays bound.
stop_serverNoClose ==
    IF cliHttpd # "None"
    THEN /\ cliHttpd' = "closed"
         /\ UNCHANGED listener
    ELSE UNCHANGED <<cliHttpd, listener>>

\* CVPDFGenerator.stop_server: shutdown() and server_close() when self.httpd
\* is set; the attribute keeps the closed server.
stop_server ==
    IF cliHttpd # "None"
    THEN /\ cliHttpd' = "closed"
         /\ listener' = IF cliHttpd = "serving"
                        THEN [listener EXCEPT ![args.port] = "none"]
                        ELSE listener
    ELSE UNCHANGED <<cliHttpd, listener>>

\* main() dispatches on --method and --language; run() returns early when a
\* file of cv_folder is missing.
Main ==
    /\ cliPc = "main"
    /\ IF args.method = "weasyprint"
       THEN /\ cliPc' = "weasyprint"
            /\ stage' = [lang |-> IF args.language = "both" THEN "en" ELSE args.language,
                         at |-> "write_pdf"]
            /\ UNCHANGED printed
       ELSE IF InRun /\ args.files # "complete"
            THEN /\ cliPc' = "exit"
                 /\ printed' = "error"
                 /\ UNCHANGED stage
            ELSE /\ cliPc' = "install"
                 /\ UNCHANGED <<stage, printed>>
    /\ UNCHANGED <<program, listener, svcVars, appPhase, cliHttpd, args, cliBrowser,
                   cliPage, startInvoked, stopRan, lastOp, pureVars>>

\* An exception leaves the statement at cliPc: run() catches it, prints the
\* error line and goes to its finally; in main() an exception raised inside
\* the try goes to the finally and one raised before it ends the process.
Raise(inTry) ==
    /\ cliPc' = IF InRun \/ inTry THEN "finally" ELSE "exit"
    /\ printed' = IF InRun THEN "error" ELSE "traceback"

\* install_requirements: pip may fail (CalledProcessError).
Install ==
    /\ cliPc = "install"
    /\ \/ /\ cliPc' = "start"
          /\ UNCHANGED printed
       \/ Raise(FALSE)
    /\ UNCHANGED <<program, listener, svcVars, appPhase, cliHttpd, args, cliBrowser,
                   cliPage, stage, startInvoked, stopRan, lastOp, pureVars>>

\* self.start_server() in run(), generator.start_server() in main().
StartServer ==
    /\ cliPc = "start"
    /\ startInvoked' = TRUE
    /\ start_server
    /\ IF StartServerResult = "ok"
       THEN /\ cliPc' = "generate"
            /\ stage' = [lang |-> IF InRun THEN "en" ELSE args.language, at |-> "enter"]
            /\ UNCHANGED printed
       ELSE /\ Raise(FALSE)
            /\ UNCHANGED stage
    /\ UNCHANGED <<program, svcVars, appPhase, args, cliBrowser, cliPage, stopRan,
                   lastOp, pureVars>>

\* The awaits of generate_pdf_playwright in order: entering
\* async_playwright(), chromium.launch, new_page, goto, wait_for_selector,
\* the click and the pause of the Polish version, page.pdf, browser.close.
AfterStage(lang, at) ==
    CASE at = "enter" -> "launch"
      [] at = "launch" -> "new_page"
      [] at = "new_page" -> "goto"
      [] at = "goto" -> "wait_cv"
      [] at = "wait_cv" -> IF lang = "pl" THEN "click" ELSE "pdf"
      [] at = "click" -> "wait_timeout"
      [] at = "wait_timeout" -> "pdf"
      [] at = "pdf" -> "close"
      [] OTHER -> "return"

\* Leaving the async with of async_playwright(), by return or by exception:
\* the driver stops and takes its browser and the pages of it with it.
ExitPlaywright ==
    /\ cliBrowser' = IF cliBrowser = "none" THEN "none" ELSE "closed"
    /\ cliPage' = FALSE

\* One await of generate_pdf_playwright completes, or raises.
Generate ==
    /\ cliPc = "generate"
    /\ \/ /\ stage.at \in {"enter", "goto", "wait_cv", "click", "wait_timeout", "pdf"}
          /\ stage' = [stage EXCEPT !.at = AfterStage(stage.lang, stage.at)]
          /\ UNCHANGED <<cliPc, cliBrowser, cliPage, printed>>
       \/ /\ stage.at = "launch"
          /\ cliBrowser' = "open"
          /\ stage' = [stage EXCEPT !.at = AfterStage(stage.lang, stage.at)]
          /\ UNCHANGED <<cliPc, cliPage, printed>>
       \/ /\ stage.at = "new_page"
          /\ cliPage' = TRUE
          /\ stage' = [stage EXCEPT !.at = AfterStage(stage.lang, stage.at)]
          /\ UNCHANGED <<cliPc, cliBrowser, printed>>
       \/ /\ stage.at = "close"
          /\ ExitPlaywright
          /\ printed' = "ok"
          /\ IF InRun /\ stage.lang = "en"
             THEN /\ stage' = [lang |-> "pl", at |-> "enter"]
                  /\ UNCHANGED cliPc
             ELSE /\ stage' = [stage EXCEPT !.at = "return"]
                  /\ cliPc' = "finally"
       \/ /\ ExitPlaywright
          /\ Raise(TRUE)
          /\ UNCHANGED stage
    /\ UNCHANGED <<program, listener, svcVars, appPhase, cliHttpd, args, startInvoked,
                   stopRan, lastOp, pureVars>>

\* finally: self.stop_server() in run(), generator.stop_server() in main().
StopServer ==
    /\ cliPc = "finally"
    /\ stopRan' = TRUE
    /\ stop_server
    /\ cliPc' = "exit"
    /\ UNCHANGED <<program, svcVars, appPhase, args, cliBrowser, cliPage, stage,
                   startInvoked, printed, lastOp, pureVars>>

\* generate_pdf_weasyprint for one language: it writes the file or raises,
\* and nothing catches what it raises.
Weasyprint ==
    /\ cliPc = "weasyprint"
    /\ \/ /\ printed' = "ok"
          /\ IF args.language = "both" /\ stage.lang = "en"
             THEN /\ stage' = [stage EXCEPT !.lang = "pl"]
                  /\ UNCHANGED cliPc
             ELSE /\ cliPc' = "exit"
                  /\ UNCHANGED stage
       \/ /\ printed' = "traceback"
          /\ cliPc' = "exit"
          /\ UNCHANGED stage
    /\ UNCHANGED <<program, listener, svcVars, appPhase, cliHttpd, args, cliBrowser,
                   cliPage, startInvoked, stopRan, lastOp, pureVars>>

NextCli ==
    \/ Main
    \/ Install
    \/ StartServer
    \/ Generate
    \/ StopServer
    \/ Weasyprint

SpecCli == InitCli /\ [][NextCli]_vars

\* C5: in every browser-driven flow of the command line program, once
\* start_server has been invoked, stop_server has run by the time the
\* process exits, and no server socket of the program is left bound.
CleanupAlwaysRuns ==
    (cliPc = "exit" /\ startInvoked)
        => /\ stopRan
           /\ \A p \in Ports : listener[p] # "cli"

(***************************************************************************)
(* api_server.py: the FastAPI application                                  *)
(***************************************************************************)

\* app = FastAPI(title=...): the lifespan context manager defined above it
\* is not handed to the application.
LifespanRegistered == FALSE

InitApp == InitService

\* The server starts the application: the registered lifespan, if any, runs
\* up to its yield.
AppStartup ==
    /\ program = "api_server"
    /\ appPhase = "created"
    /\ appPhase' = "serving"
    /\ IF LifespanRegistered
       THEN Start
       ELSE UNCHANGED <<listener, svcVars>>
    /\ UNCHANGED <<program, cliVars, lastOp, pureVars>>

\* POST /api/generate: the route awaits pdf_service.generate_pdf.
Route(j) ==
    /\ appPhase = "serving"
    /\ Call(j)

\* The server stops the application: the registered lifespan, if any, runs
\* on from its yield.
AppShutdown ==
    /\ program = "api_server"
    /\ appPhase = "serving"
    /\ appPhase' = "stopped"
    /\ IF LifespanRegistered
       THEN Stop
       ELSE UNCHANGED <<listener, svcVars>>
    /\ UNCHANGED <<program, cliVars, lastOp, pureVars>>

\* With the browser handle unset a call never suspends inside the gate, so
\* the application takes no step of Acquire, NewPage or Render.
NextApp ==
    \/ AppStartup
    \/ \E j \in Jobs : Route(j)
    \/ AppShutdown

SpecApp == InitApp /\ [][NextApp]_vars

\* C9: PDFService.start has completed (static server bound, browser
\* launched) before any request reaches PDFService.generate_pdf.
StartedBeforeRequests ==
    \A j \in Jobs : pc[j] # "idle" => browser # "None" /\ httpd # "None"

(***************************************************************************)
(* The entry points that generate a PDF for a language of a document       *)
(***************************************************************************)

Entries == {"PDFService.generate_pdf", "generate_pdf_weasyprint", "generate_pdf_playwright"}

InitLang ==
    /\ program = "entry_points"
    /\ listener = NoListener
    /\ NewService
    /\ appPhase = "created"
    /\ IdleCli
    /\ args = NoArgs
    /\ lastOp = NoOp
    /\ request \in [entry : Entries, doc : Documents, language : Langs]
    /\ response = [kind |-> "none"]
    /\ data = <<>>
    /\ html = <<>>

\* PDFService.generate_pdf up to the gate.
ApiGenerate ==
    /\ program = "entry_points"
    /\ request.entry = "PDFService.generate_pdf"
    /\ response.kind = "none"
    /\ response' = LET check == CheckLanguage(request.doc, request.language)
                   IN  IF check.status = 400
                       THEN [kind |-> check.kind, status |-> 400, available |-> check.available]
                       ELSE [kind |-> "generates", language |-> request.language]
    /\ UNCHANGED <<program, listener, svcVars, appPhase, cliVars, lastOp, request, data, html>>

\* generate_pdf_weasyprint: cv_data[language] is a plain subscript, a
\* KeyError whose only argument is the language asked for.
WeasyprintGenerate ==
    /\ program = "entry_points"
    /\ request.entry = "generate_pdf_weasyprint"
    /\ response.kind = "none"
    /\ response' = IF request.language \in Keys(request.doc)
                   THEN [kind |-> "generates", language |-> request.language]
                   ELSE [kind |-> "KeyError", message |-> request.language]
    /\ UNCHANGED <<program, listener, svcVars, appPhase, cliVars, lastOp, request, data, html>>

\* generate_pdf_playwright never looks the language up: it clicks the
\* Polish button for "pl" and prints the page as it is for anything else.
PlaywrightGenerate ==
    /\ program = "entry_points"
    /\ request.entry = "generate_pdf_playwright"
    /\ response.kind = "none"
    /\ response' = [kind |-> "generates",
                    language |-> IF request.language = "pl" THEN "pl" ELSE "page default"]
    /\ UNCHANGED <<program, listener, svcVars, appPhase, cliVars, lastOp, request, data, html>>

NextLang ==
    \/ ApiGenerate
    \/ WeasyprintGenerate
    \/ PlaywrightGenerate

SpecLang == InitLang /\ [][NextLang]_vars

\* C3: on every entry point, a language that is no key of the document is
\* answered by an Invalid-Language failure listing exactly the document's keys.
InvalidLanguageListsKeys ==
    (response.kind # "none" /\ request.language \notin Keys(request.doc))
        => (response.kind = "InvalidLanguage" /\ response.available = request.doc)

(***************************************************************************)
(* Start and stop calls on the two server objects, on one port             *)
(***************************************************************************)

InitServers ==
    /\ program = "servers"
    /\ listener = NoListener
    /\ NewService
    /\ appPhase = "created"
    /\ IdleCli
    /\ args \in [method : {"none"}, language : {"none"}, files : {"none"}, port : Ports]
    /\ lastOp = NoOp
    /\ IdlePure

\* CVPDFGenerator.start_server is called.
CallStartServer ==
    /\ program = "servers"
    /\ start_server
    /\ lastOp' = [obj |-> "cli", op |-> "start", before |-> listener, had |-> cliHttpd,
                  result |-> StartServerResult]
    /\ UNCHANGED <<program, svcVars, appPhase, cliPc, args, cliBrowser, cliPage, stage,
                   startInvoked, stopRan, printed, pureVars>>

\* CVPDFGenerator.stop_server is called.
CallStopServer ==
    /\ program = "servers"
    /\ stop_server
    /\ lastOp' = [obj |-> "cli", op |-> "stop", before |-> listener, had |-> cliHttpd,
                  result |-> "ok"]
    /\ UNCHANGED <<program, svcVars, appPhase, cliPc, args, cliBrowser, cliPage, stage,
                   startInvoked, stopRan, printed, pureVars>>

\* PDFService.start is called.
CallStart ==
    /\ program = "servers"
    /\ Start
    /\ lastOp' = [obj |-> "api", op |-> "start", before |-> listener, had |-> httpd,
                  result |-> StartResult]
    /\ UNCHANGED <<program, appPhase, cliVars, pureVars>>

\* PDFService.stop is called.
CallStop ==
    /\ program = "servers"
    /\ Stop
    /\ lastOp' = [obj |-> "api", op |-> "stop", before |-> listener, had |-> httpd,
                  result |-> "ok"]
    /\ UNCHANGED <<program, appPhase, cliVars, pureVars>>

\* Another process binds a port, or closes its socket.
OtherProcess ==
    /\ program = "servers"
    /\ \E p \in Ports :
          /\ listener[p] \in {"none", "other"}
          /\ listener' = [listener EXCEPT ![p] = IF listener[p] = "none" THEN "other" ELSE "none"]
    /\ lastOp' = NoOp
    /\ UNCHANGED <<program, svcVars, appPhase, cliVars, pureVars>>

NextServers ==
    \/ CallStartServer
    \/ CallStopServer
    \/ CallStart
    \/ CallStop
    \/ OtherProcess

SpecServers == InitServers /\ [][NextServers]_vars

PortUnavailable == {"RuntimeError: port already in use", "OSError: address already in use"}

HttpdOf(obj) == IF obj = "cli" THEN cliHttpd ELSE httpd

PortOf(obj) == IF obj = "cli" THEN args.port ELSE STATIC_PORT

\* C4: a start while the port is bound fails with Port-Unavailable and binds
\* nothing (every port keeps its holder, the object keeps the server it
\* had); a start on the free port, such as the one after stop, succeeds and
\* holds that port and no other; after stop the object holds the port no
\* longer, and the port it held is free.
StartStopContract ==
    LET port == PortOf(lastOp.obj)
    IN  /\ (lastOp.op = "start" /\ lastOp.before[port] # "none")
              => /\ lastOp.result \in PortUnavailable
                 /\ listener = lastOp.before
                 /\ HttpdOf(lastOp.obj) = lastOp.had
        /\ (lastOp.op = "start" /\ lastOp.before[port] = "none")
              => /\ lastOp.result = "ok"
                 /\ listener = [lastOp.before EXCEPT ![port] = lastOp.obj]
                 /\ HttpdOf(lastOp.obj) = "serving"
        /\ (lastOp.op = "stop")
              => /\ listener[port] # lastOp.obj
                 /\ HttpdOf(lastOp.obj) # "serving"
                 /\ (lastOp.before[port] = lastOp.obj
                       => listener = [lastOp.before EXCEPT ![port] = "none"])

RestartedAfterStop ==
    /\ lastOp.obj = "cli"
    /\ lastOp.op = "start"
    /\ lastOp.had = "closed"
    /\ lastOp.result = "ok"
    /\ listener[args.port] = "cli"

(***************************************************************************)
(* generate_pdf.py: the static markup renderer                             *)
(*                                                                         *)
(* A text is a sequence of characters; markup is a sequence of tokens, a   *)
(* token being a tag of the template, a run of template whitespace (WS) or *)
(* a character of a substituted text.  Formatting a text into markup is    *)
(* concatenation, as in the f-strings; nothing is escaped.                 *)
(***************************************************************************)

\* Entries per list of a LanguageSection, and detail strings per experience.
MaxEntries == 2

MaxDetails == 2

\* A run of newlines and indentation of a template.
WS == "\n"

\* The bullet character U+2022.
Bullet == "*"

Chars == {"N", "M", "P", "Q", "S", "T", "C", "x", "y", "o", "i", "d", "1", "E", Bullet}

SeqsUpTo(S, n) == UNION {[1..k -> S] : k \in 0..n}

RECURSIVE Join(_)
\* "".join(parts)
Join(parts) ==
    IF parts = <<>> THEN <<>> ELSE Head(parts) \o Join(Tail(parts))

\* The membership test of the bullet character in a text.
HasBullet(text) == \E i \in 1..Len(text) : text[i] = Bullet

\* dict.get(key, default)
Get(dict, key, default) == IF key \in DOMAIN dict THEN dict[key] ELSE default

\* A renderer that looks at the number of details only.
details_htmlByCount(details) ==
    IF Len(details) = 1
    THEN details[1]
    ELSE <<"<ul>">>
         \o Join([i \in 1..Len(details) |-> <<"<li>">> \o details[i] \o <<"</li>">>])
         \o <<"</ul>">>

\* render_experience, the details of one entry: the sole detail as it is
\* when it holds no bullet, else a list with one item per detail.
details_html(details) ==
    IF Len(details) = 1 /\ ~HasBullet(details[1])
    THEN details[1]
    ELSE <<"<ul>">>
         \o Join([i \in 1..Len(details) |-> <<"<li>">> \o details[i] \o <<"</li>">>])
         \o <<"</ul>">>

\* render_experience, the company line: exp.get('company') is falsy when
\* the key is absent or its text empty.
company_html(exp) ==
    IF Get(exp, "company", <<>>) # <<>>
    THEN <<"<span class=\"experience-company\">">> \o exp.company \o <<"</span>", "<br/>">>
    ELSE <<>>

experience_item(exp) ==
    <<"<div class=\"experience-year\">">> \o exp.years \o <<"</div>", "<div>">>
    \o <<"<span class=\"experience-position\">">> \o exp.position \o <<"</span>", "<br/>">>
    \o company_html(exp)
    \o details_html(exp.details)
    \o <<"</div>">>

render_experience(experiences) ==
    Join([i \in 1..Len(experiences) |-> experience_item(experiences[i])])

\* A renderer that walks the skills from the last to the first.
render_skillsReversed(skills) ==
    Join([i \in 1..Len(skills) |->
            <<"<span class=\"technology-name\">">> \o skills[Len(skills) + 1 - i].name
            \o <<"</span>">>
            \o <<"<span class=\"technology-description\">">>
            \o skills[Len(skills) + 1 - i].description \o <<"</span>">>])

render_skills(skills) ==
    Join([i \in 1..Len(skills) |->
            <<"<span class=\"technology-name\">">> \o skills[i].name \o <<"</span>">>
            \o <<"<span class=\"technology-description\">">> \o skills[i].description
            \o <<"</span>">>])

render_education(education) ==
    Join([i \in 1..Len(education) |->
            <<"<div class=\"education-year\">">> \o education[i].year \o <<"</div>", WS, "<div>">>
            \o <<"<span class=\"education-detail\">">> \o education[i].detail
            \o <<"</span>", "<br/>">>
            \o <<"<span class=\"education-org\">">> \o education[i].org
            \o <<"</span>", "</div>">>])

render_languages(languages) ==
    Join([i \in 1..Len(languages) |->
            <<"<span class=\"language-name\">">> \o languages[i].name \o <<"</span>">>
            \o <<"<span>">> \o languages[i].level \o <<"</span>">>])

render_disabilities(disabilities) ==
    Join([i \in 1..Len(disabilities) |->
            <<"<span class=\"disability-name\">">> \o disabilities[i].name \o <<"</span>">>
            \o <<"<span>">> \o disabilities[i].level \o <<"</span>">>])

render_projects(projects, labels) ==
    Join([i \in 1..Len(projects) |->
            <<WS, "<h2 class=\"workproject-heading\">">> \o projects[i].years \o <<" ">>
            \o projects[i].title \o <<"</h2>", WS>>
            \o <<"<div class=\"workproject-intro\">">> \o projects[i].intro \o <<"</div>", WS>>
            \o <<"<div class=\"workproject-details\">", WS>>
            \o <<"<strong>">> \o Get(labels, "position", <<"Position">>) \o <<"</strong>">>
            \o <<"<div>">> \o projects[i].position \o <<"</div>", WS>>
            \o <<"<strong>">> \o Get(labels, "technology", <<"Technology">>) \o <<"</strong>">>
            \o <<"<div>">> \o projects[i].technology \o <<"</div>", WS>>
            \o <<"<strong>">> \o Get(labels, "role", <<"Role">>) \o <<"</strong>">>
            \o <<"<div>">> \o projects[i].role \o <<"</div>", WS>>
            \o <<"</div>", WS>>])

\* The keys create_static_html subscripts: a missing one is a KeyError.
Required == {"name", "intro", "contact", "experience", "skills", "education", "languages",
             "projects"}

KeyError == <<"KeyError">>

\* data.get('skills_other'): the default is None, formatted as "None".
skills_otherNoDefault(section) == Get(section, "skills_other", <<"N", "o", "n", "e">>)

\* data.get('skills_other', '')
skills_other(section) == Get(section, "skills_other", <<>>)

\* data.get('disabilities', [])
disabilities_of(section) == Get(section, "disabilities", <<>>)

header_html(section) ==
    <<"<!DOCTYPE html>", WS, "<html>", WS, "<head>", WS>>
    \o <<"<title>">> \o section.name \o <<"</title>", WS>>
    \o <<"<link rel=\"stylesheet\" href=\"styles/cv.css\">", WS>>
    \o <<"<meta charset=\"utf-8\">", WS, "</head>", WS, "<body>", WS>>
    \o <<"<div id=\"cv\">", WS, "<section id=\"header\">", WS>>
    \o <<"<div id=\"name-container\">", WS>>
    \o <<"<img id=\"profile-picture\" src=\"images/CV_1024x1024.png\" alt=\"profile-picture\"/>">>
    \o <<WS, "<span id=\"name\">">> \o section.name \o <<"</span>", WS, "</div>", WS>>
    \o <<"<div id=\"intro\">", WS, "<span>">> \o section.intro \o <<"</span>", WS>>
    \o <<"</div>", WS, "</section>", WS>>

contact_html(section) ==
    <<"<section id=\"contact\">", WS>>
    \o <<"<a class=\"phoneNumber\" href=\"tel:">> \o section.contact.phone \o <<"\">", WS>>
    \o <<"<span class=\"fas fa-phone icon\">", "</span>", "<span>">>
    \o section.contact.phone \o <<"</span>", WS, "</a>", WS>>
    \o <<"<a href=\"mailto:">> \o section.contact.email \o <<"\">", WS>>
    \o <<"<span class=\"fas fa-envelope icon\">", "</span>", "<span>">>
    \o section.contact.email \o <<"</span>", WS, "</a>", WS>>
    \o <<"<a href=\"">> \o section.contact.linkedin \o <<"\">", WS>>
    \o <<"<span class=\"fab fa-linkedin icon\">", "</span>", "<span>">>
    \o <<"linkedin.com/in/lukasz0wisniewski", "</span>", WS, "</a>", WS, "</section>", WS>>

create_static_html(section, labels) ==
    IF ~(Required \subseteq DOMAIN section)
    THEN KeyError
    ELSE header_html(section)
         \o contact_html(section)
         \o <<"<h1>">> \o Get(labels, "experience", <<"Experience">>) \o <<"</h1>", WS>>
         \o <<"<section id=\"experience\" class=\"section-experience\">", WS>>
         \o render_experience(section.experience) \o <<WS, "</section>", WS>>
         \o <<"<h1>">> \o Get(labels, "skills", <<"Skills and Technology">>) \o <<"</h1>", WS>>
         \o <<"<div class=\"section-large\" id=\"technology-list\">", WS>>
         \o render_skills(section.skills) \o <<WS, "</div>", WS>>
         \o <<"<div id=\"technology-other\">", WS>> \o skills_other(section)
         \o <<WS, "</div>", WS>>
         \o <<"<section id=\"education\" class=\"two-sections\">", WS, "<div>", WS>>
         \o <<"<h1>">> \o Get(labels, "education", <<"Education">>) \o <<"</h1>", WS>>
         \o <<"<section class=\"section-small\">", WS>>
         \o render_education(section.education)
         \o <<WS, "</section>", WS, "</div>", WS, "<div>", WS>>
         \o <<"<h1>">> \o Get(labels, "language", <<"Language">>) \o <<"</h1>", WS>>
         \o <<"<section class=\"section-small\">", WS>>
         \o render_languages(section.languages) \o <<WS, "</section>", WS>>
         \o <<"<h1>">> \o Get(labels, "disability", <<"Certificate of Disability">>)
         \o <<"</h1>", WS>>
         \o <<"<section class=\"section-small\">", WS>>
         \o render_disabilities(disabilities_of(section))
         \o <<WS, "</section>", WS, "</div>", WS, "</section>", WS>>
         \o <<"<h1 id=\"work-projects\">">>
         \o Get(labels, "projects", <<"Project highlights">>) \o <<"</h1>", WS>>
         \o render_projects(section.projects, labels)
         \o <<WS, "</div>", WS, "</body>", WS, "</html>">>

NotRendered == <<"(not rendered)">>

\* The inputs of the renderer.
DetailTexts == {<<"x">>, <<"y", Bullet>>}

ExperienceEntries ==
    {[years |-> <<"1">>, position |-> p, details |-> <<<<"d">>>>] : p \in {<<"P">>, <<"Q">>}}

SkillEntries ==
    {[name |-> n, description |-> <<"d">>] : n \in {<<"S">>, <<"T">>}}

Core(name, experience, skills) ==
    [name |-> name,
     intro |-> <<"i">>,
     contact |-> [phone |-> <<"1">>, email |-> <<"E">>, linkedin |-> <<"i">>],
     experience |-> experience,
     skills |-> skills,
     education |-> <<[year |-> <<"1">>, detail |-> <<"d">>, org |-> <<"o">>]>>,
     languages |-> <<[name |-> <<"E">>, level |-> <<"1">>]>>,
     projects |-> <<[years |-> <<"1">>, title |-> <<"T">>, intro |-> <<"i">>,
                     position |-> <<"P">>, technology |-> <<"T">>, role |-> <<"o">>]>>]

\* skills_other: absent, empty or a text; disabilities: absent, empty or one entry.
OptionalFields ==
    {so @@ di :
        so \in {<<>>, [skills_other |-> <<>>], [skills_other |-> <<"o">>]},
        di \in {<<>>, [disabilities |-> <<>>],
                [disabilities |-> <<[name |-> <<"d">>, level |-> <<"1">>]>>]}}

Sections ==
    {Core(name, experience, skills) @@ optional :
        name \in {<<"N">>, <<"M">>},
        experience \in SeqsUpTo(ExperienceEntries, MaxEntries),
        skills \in SeqsUpTo(SkillEntries, MaxEntries),
        optional \in OptionalFields}

\* A document that lacks a required field.
Malformed ==
    {[k \in DOMAIN section \ {missing} |-> section[k]] :
        section \in {Core(<<"N">>, <<>>, <<>>)}, missing \in Required}

LabelSets == {<<>>, [experience |-> <<"E">>, position |-> <<"P">>]}

InitRender ==
    /\ program = "create_static_html"
    /\ listener = NoListener
    /\ NewService
    /\ appPhase = "created"
    /\ IdleCli
    /\ args = NoArgs
    /\ lastOp = NoOp
    /\ request = [entry |-> "none", doc |-> <<>>, language |-> "none"]
    /\ response = [kind |-> "none"]
    /\ data \in [section : Sections \cup Malformed, labels : LabelSets]
    /\ html = NotRendered

\* static_html = create_static_html(cv_data[language], labels)
RenderPage ==
    /\ program = "create_static_html"
    /\ html = NotRendered
    /\ html' = create_static_html(data.section, data.labels)
    /\ UNCHANGED <<program, listener, svcVars, appPhase, cliVars, lastOp, request, response, data>>

SpecRender == InitRender /\ [][RenderPage]_vars

\* The experience lists given to render_experience.
DetailedEntries ==
    {[years |-> <<"1">>, position |-> <<"P">>, details |-> details] @@ company :
        details \in SeqsUpTo(DetailTexts, MaxDetails),
        company \in {<<>>, [company |-> <<"C">>]}}

InitExperience ==
    /\ program = "render_experience"
    /\ listener = NoListener
    /\ NewService
    /\ appPhase = "created"
    /\ IdleCli
    /\ args = NoArgs
    /\ lastOp = NoOp
    /\ request = [entry |-> "none", doc |-> <<>>, language |-> "none"]
    /\ response = [kind |-> "none"]
    /\ data \in SeqsUpTo(DetailedEntries, MaxEntries)
    /\ html = NotRendered

RenderExperience ==
    /\ program = "render_experience"
    /\ html = NotRendered
    /\ html' = render_experience(data)
    /\ UNCHANGED <<program, listener, svcVars, appPhase, cliVars, lastOp, request, response, data>>

SpecExperience == InitExperience /\ [][RenderExperience]_vars

(***************************************************************************)
(* Reading markup back                                                     *)
(***************************************************************************)

\* The positions of a tag in markup, and the k-th of them.
Starts(markup, tag) == {i \in 1..Len(markup) : markup[i] = tag}

Nth(positions, k) == CHOOSE i \in positions : Cardinality({s \in positions : s < i}) = k - 1

\* The text that starts after token i: the characters up to the next tag.
Run(markup, i) ==
    LET tags == {j \in (i + 1)..Len(markup) : markup[j] \notin Chars}
        stop == IF tags = {} THEN Len(markup) + 1
                ELSE CHOOSE j \in tags : \A t \in tags : j <= t
    IN  SubSeq(markup, i + 1, stop - 1)

\* The texts that follow the occurrences of a tag, in document order.
TextsAfter(markup, tag) ==
    [k \in 1..Cardinality(Starts(markup, tag)) |-> Run(markup, Nth(Starts(markup, tag), k))]

Count(markup, tag) == Cardinality(Starts(markup, tag))

\* The k-th stretch of markup that starts at a tag and runs up to the next
\* occurrence of it.
Item(markup, tag, k) ==
    LET starts == Starts(markup, tag)
        first == Nth(starts, k)
        later == {s \in starts : s > first}
        last == IF later = {} THEN Len(markup)
                ELSE (CHOOSE s \in later : \A t \in later : s <= t) - 1
    IN  SubSeq(markup, first, last)

Complete(section) == Required \subseteq DOMAIN section

\* C6: the page holds the candidate name, and the position of every
\* experience entry and the name of every skill, each exactly once and in
\* the order of the input lists.
RenderKeepsOrder ==
    (program = "create_static_html" /\ html # NotRendered /\ Complete(data.section))
        => /\ TextsAfter(html, "<span id=\"name\">") = <<data.section.name>>
           /\ TextsAfter(html, "<span class=\"experience-position\">")
                 = [i \in 1..Len(data.section.experience) |-> data.section.experience[i].position]
           /\ TextsAfter(html, "<span class=\"technology-name\">")
                 = [i \in 1..Len(data.section.skills) |-> data.section.skills[i].name]

RenderedTwoOfEach ==
    /\ program = "create_static_html"
    /\ html # NotRendered
    /\ Complete(data.section)
    /\ Len(data.section.experience) = 2
    /\ data.section.experience[1].position # data.section.experience[2].position
    /\ Len(data.section.skills) = 2
    /\ data.section.skills[1].name # data.section.skills[2].name

\* C8: with the required fields present the renderer does not fail, and a
\* section without skills_other or disabilities renders as the same section
\* with the field present and empty.
EmptyOptionals == [skills_other |-> <<>>, disabilities |-> <<>>]

AbsentRendersAsEmpty ==
    (program = "create_static_html" /\ html # NotRendered /\ Complete(data.section))
        => /\ html # KeyError
           /\ html = create_static_html(data.section @@ EmptyOptionals, data.labels)

RenderedWithoutOptionals ==
    /\ program = "create_static_html"
    /\ html # NotRendered
    /\ Complete(data.section)
    /\ "skills_other" \notin DOMAIN data.section
    /\ "disabilities" \notin DOMAIN data.section
    /\ Len(html) > 1

\* C7: the details of an entry are a plain paragraph (the detail itself, no
\* list) exactly when there is one detail and it holds no bullet; otherwise
\* they are one list with one item per detail, verbatim and in order.
YearTag == "<div class=\"experience-year\">"

ParagraphOrList ==
    (program = "render_experience" /\ html # NotRendered)
        => /\ Count(html, YearTag) = Len(data)
           /\ \A k \in 1..Len(data) :
                LET item == Item(html, YearTag, k)
                    details == data[k].details
                    n == Len(item)
                IN  IF Len(details) = 1 /\ (\A i \in 1..Len(details[1]) : details[1][i] # Bullet)
                    THEN /\ Count(item, "<ul>") = 0
                         /\ Count(item, "<li>") = 0
                         /\ n > Len(details[1]) + 1
                         /\ SubSeq(item, n - Len(details[1]), n - 1) = details[1]
                         /\ item[n - Len(details[1]) - 1] = "<br/>"
                    ELSE /\ Count(item, "<ul>") = 1
                         /\ Count(item, "</ul>") = 1
                         /\ Count(item, "<li>") = Len(details)
                         /\ TextsAfter(item, "<li>") = details
                         /\ SubSeq(item, n - 1, n) = <<"</ul>", "</div>">>

RenderedBothShapes ==
    /\ program = "render_experience"
    /\ html # NotRendered
    /\ Len(data) = 2
    /\ data[1].details = <<<<"x">>>>
    /\ data[2].details = <<<<"y", Bullet>>>>
    /\ Count(html, "<ul>") = 1

(***************************************************************************)
(* Release on every exit path, in the service and on the command line      *)
(***************************************************************************)

\* C2: a job that has left generate_pdf, by whichever path, has no page open,
\* and once every started job has finished no page is open and all
\* MAX_CONCURRENT_PDFS slots are free; on the command line no page and no
\* browser is open once generate_pdf_playwright has been left.
JobsReleaseEverything ==
    /\ \A j \in Jobs : pc[j] \in {"done", "closed"} => j \notin pages
    /\ (\A j \in Jobs : pc[j] \in {"idle", "done", "closed"})
          => pages = {} /\ semaphore = MAX_CONCURRENT_PDFS
    /\ cliPc \in {"finally", "exit"} => ~cliPage /\ cliBrowser # "open"

\* Every job has finished while the browser is up: as many as the gate
\* admits had their page closed, and one ended on a failed new_page.
AllJobsFinished ==
    /\ browser = "open"
    /\ \A j \in Jobs : pc[j] \in {"done", "closed"}
    /\ Cardinality({j \in Jobs : pc[j] = "closed"}) = MAX_CONCURRENT_PDFS
    /\ \E j \in Jobs : pc[j] = "done"

(***************************************************************************)
(* Either program of the repository runs.                                  *)
(***************************************************************************)

Init == InitService \/ InitCli

Next ==
    \/ NextService
    \/ NextCli

Spec == Init /\ [][Next]_vars

====
